---- MODULE Spec2Model ----
(***************************************************************************)
(* The ETW provider of billti/v8 (src/tracing): the enable-state machine   *)
(* of EtwProvider, the V8Provider event wrappers, and the code-event       *)
(* translator with its per-isolate script cache.                           *)
(*                                                                         *)
(* One action per entry point.  The operating system's tracing controller  *)
(* (EventRegister, EventUnregister, the enable callback, the write call)   *)
(* is the environment: `backend` and `written` hold what it was handed.    *)
(***************************************************************************)
EXTENDS Integers, Sequences, FiniteSets, TLC

(***************************************************************************)
(* Bounds of the exploration.                                              *)
(***************************************************************************)
\* Cap on the number of write calls recorded in `written` under Spec.
MaxWrites == 4
\* Cap on the number of write calls recorded in `written` under SpecAll,
\* the specification that also runs the public event wrappers.
MaxPublicWrites == 1
\* Cap on the number of script maps RegisterEtwProvider allocates.
MaxMaps == 2

(***************************************************************************)
(* Program constants.                                                      *)
(***************************************************************************)
kMaxTraitSize == 40
kLevelNone == 0
kLevelWarning == 3
kLevelInfo == 4
kLevelVerbose == 5
kOpCodeStart == 1
kOpCodeStop == 2
kJScriptRuntimeKeyword == 1
kTypeUnicodeStr == 1
kTypeAnsiStr == 2
kTypeInt32 == 7
kTypeUInt16 == 6
kTypeUInt32 == 8
kTypeUInt64 == 10
kTypeHexInt32 == 20
kTypeHexInt64 == 21
\* sizeof(void*) of the 64-bit build.
SizeofPointer == 8
kProviderName == "V8.js"
\* sizeof(uint16_t), the length prefix of the provider trait.
SizeofUint16 == 2
\* ERROR_SUCCESS and a failure code of EventRegister (ERROR_ACCESS_DENIED).
ErrorSuccess == 0
ErrorAccessDenied == 5
\* The registration handle a successful EventRegister stores.
BackendHandle == 1

(***************************************************************************)
(* Bit arithmetic on keyword masks.                                        *)
(***************************************************************************)
\* a & b, bit by bit from the least significant bit.
RECURSIVE BitAnd(_, _)
BitAnd(a, b) ==
  IF a = 0 \/ b = 0 THEN 0
  ELSE (IF a % 2 = 1 /\ b % 2 = 1 THEN 1 ELSE 0) + 2 * BitAnd(a \div 2, b \div 2)

(***************************************************************************)
(* The inputs explored.                                                    *)
(***************************************************************************)
\* The arguments of the controller callback explored: providerState 0 is
\* Disabled, 1 Enabled, 2 another request (capture state); keyword masks
\* with and without the bit of kJScriptRuntimeKeyword.
LevelInputs == {kLevelWarning, kLevelInfo, kLevelVerbose}
KeywordInputs == {2, 3}
CallbackInputs ==
  [providerState : {1}, level : LevelInputs,
   matchAnyKeyword : KeywordInputs, allKeyword : {0, 3}]
  \cup
  [providerState : {0, 2}, level : {kLevelVerbose},
   matchAnyKeyword : KeywordInputs, allKeyword : {0}]

(***************************************************************************)
(* Program state.                                                          *)
(***************************************************************************)
VARIABLES
  state,               \* EtwProvider::state, the ProviderState of v8Provider
  hr,                  \* the local static of EtwProvider::Register
  isolate_script_map,  \* V8Provider::isolate_script_map: 0 is nullptr
  heap,                \* the ScriptMapType objects `new` has handed out
  backend,             \* the tracing controller: the calls made to it
  written,             \* the write calls handed to the backend, in order
  terminated,          \* the process was stopped by undefined behaviour
  lastOp,              \* history: the entry point that ran last
  session,             \* history: the last Enabled/Disabled callback
  run,                 \* history: the current run of notifications of one script
  probe,               \* history: the last enable check asked and its answer
  threads              \* the calls in progress on concurrent threads

vars == <<state, hr, isolate_script_map, heap, backend, written, terminated,
          lastOp, session, run, probe, threads>>

\* A value-initialised provider_trait buffer, and the one Register writes:
\* a UINT16 length, then the null-terminated name.
EmptyTrait == [size |-> 0, name |-> ""]

\* V8Provider v8Provider{}: the global is value-initialised.
InitialState ==
  [regHandle |-> 0, enabled |-> 0, level |-> 0, keywords |-> 0,
   provider_trait |-> EmptyTrait]

NoRun == [key |-> <<>>, n |-> 0, src |-> 0, meth |-> 0]
NoProbe == [asked |-> FALSE]
NoThreads == << >>

\* Everything but the provider state, as the program starts.
InitProvider ==
  /\ hr = [initialized |-> FALSE, value |-> 0]
  /\ isolate_script_map = 0
  /\ heap = <<>>
  /\ backend = [registered |-> FALSE, registerCalls |-> 0, unregisterCalls |-> 0,
                released |-> {}, dropped |-> {}]
  /\ written = <<>>
  /\ terminated = FALSE
  /\ lastOp = [name |-> "Init", arg |-> 0]
  /\ session = "none"
  /\ run = NoRun
  /\ threads = NoThreads

InitRest ==
  /\ InitProvider
  /\ probe = NoProbe

Init ==
  /\ state = InitialState
  /\ InitRest

(***************************************************************************)
(* EtwProvider: the enable checks.                                         *)
(***************************************************************************)
Level(s) == s.level
Keywords(s) == s.keywords

\* bool IsEnabled()
IsEnabled(s) == IF s.enabled = 0 THEN FALSE ELSE TRUE

\* IsEnabled(event) without its level test.
IsEnabledEventIgnoringLevel(s, event) ==
  IF s.enabled = 0 THEN FALSE
  ELSE event.keywords = 0 \/ BitAnd(event.keywords, s.keywords) # 0

\* bool IsEnabled(const EventInfo& event)
IsEnabledEvent(s, event) ==
  IF s.enabled = 0 THEN FALSE
  ELSE IF event.level > s.level THEN FALSE
  ELSE event.keywords = 0 \/ BitAnd(event.keywords, s.keywords) # 0

\* void UpdateState(bool isEnabled, uint8_t level, uint64_t keywords)
UpdateState(s, isEnabled, level, keywords) ==
  [s EXCEPT !.level = level,
            !.keywords = keywords,
            !.enabled = IF isEnabled THEN 1 ELSE 0]

\* The switch with a Disabled case that clears `enabled` only.
CallbackStateDisableKeepsMask(s, providerState, level, matchAnyKeyword, allKeyword) ==
  CASE providerState = 0 -> [s EXCEPT !.enabled = 0]
    [] providerState = 1 -> UpdateState(s, TRUE, level, matchAnyKeyword)
    [] OTHER -> s

\* The switch with an Enabled case that stores allKeyword as the mask.
CallbackStateMatchAll(s, providerState, level, matchAnyKeyword, allKeyword) ==
  CASE providerState = 0 -> UpdateState(s, FALSE, 0, 0)
    [] providerState = 1 -> UpdateState(s, TRUE, level, allKeyword)
    [] OTHER -> s

\* The switch with a default case that disables.
CallbackStateDefaultDisables(s, providerState, level, matchAnyKeyword, allKeyword) ==
  CASE providerState = 1 -> UpdateState(s, TRUE, level, matchAnyKeyword)
    [] OTHER -> UpdateState(s, FALSE, 0, 0)

\* The switch of EtwProvider::Callback: the state it leaves.
CallbackState(s, providerState, level, matchAnyKeyword, allKeyword) ==
  CASE providerState = 0 -> UpdateState(s, FALSE, 0, 0)
    [] providerState = 1 -> UpdateState(s, TRUE, level, matchAnyKeyword)
    [] OTHER -> s

(***************************************************************************)
(* EtwProvider: registration.                                              *)
(***************************************************************************)
RegisterResults == {ErrorSuccess, ErrorAccessDenied}

\* strlen(providerName)
strlen(str) == Len(str)

\* The provider trait Register writes: the UINT16 size, then the name.
ProviderTrait(providerName) ==
  [size |-> SizeofUint16 + strlen(providerName) + 1,
   name |-> IF strlen(providerName) + 1 <= kMaxTraitSize - SizeofUint16
            THEN providerName ELSE ""]

\* EventRegister(guid, Callback, this, &state.regHandle) answering r.
EventRegister(r) ==
  /\ backend' = [backend EXCEPT !.registerCalls = @ + 1,
                                !.registered = @ \/ (r = ErrorSuccess)]
  /\ hr' = [initialized |-> TRUE, value |-> r]
  /\ state' = [state EXCEPT
                 !.regHandle = IF r = ErrorSuccess THEN BackendHandle ELSE @,
                 !.provider_trait = ProviderTrait(kProviderName)]

\* Register with hr an ordinary local: every call registers.
RegisterUnlatched == \E r \in RegisterResults : EventRegister(r)

\* Register trying again after a failed registration.
RegisterRetrying ==
  IF hr.initialized /\ hr.value = ErrorSuccess
  THEN /\ UNCHANGED <<hr, backend>>
       /\ state' = [state EXCEPT !.provider_trait = ProviderTrait(kProviderName)]
  ELSE \E r \in RegisterResults : EventRegister(r)

\* Register registering again whenever no handle is stored.
RegisterWhenNoHandle ==
  IF hr.initialized /\ state.regHandle # 0
  THEN /\ UNCHANGED <<hr, backend>>
       /\ state' = [state EXCEPT !.provider_trait = ProviderTrait(kProviderName)]
  ELSE \E r \in RegisterResults : EventRegister(r)

\* Register clearing the enable fields on every call after the first.
RegisterResettingState ==
  IF hr.initialized
  THEN /\ UNCHANGED <<hr, backend>>
       /\ state' = [state EXCEPT !.provider_trait = ProviderTrait(kProviderName),
                                 !.enabled = 0, !.level = 0, !.keywords = 0]
  ELSE \E r \in RegisterResults : EventRegister(r)

\* uint32_t EtwProvider::Register(guid, providerName): the local static hr
\* is initialised by the first call only; every call writes the trait.
Register ==
  IF hr.initialized
  THEN /\ UNCHANGED <<hr, backend>>
       /\ state' = [state EXCEPT !.provider_trait = ProviderTrait(kProviderName)]
  ELSE \E r \in RegisterResults : EventRegister(r)

\* Unregister without the test of the handle.
UnregisterUnguarded ==
  /\ backend' = [backend EXCEPT !.unregisterCalls = @ + 1,
                                !.released = @ \cup {state.regHandle},
                                !.registered = FALSE]
  /\ state' = [state EXCEPT !.regHandle = 0, !.enabled = 0,
                            !.level = 0, !.keywords = 0]

\* Unregister leaving the enable fields as they are.
UnregisterKeepsEnabled ==
  IF state.regHandle # 0
  THEN /\ backend' = [backend EXCEPT !.unregisterCalls = @ + 1,
                                     !.released = @ \cup {state.regHandle},
                                     !.registered = FALSE]
       /\ state' = [state EXCEPT !.regHandle = 0]
  ELSE UNCHANGED <<backend, state>>

\* Unregister leaving the handle stored.
UnregisterKeepsHandle ==
  IF state.regHandle # 0
  THEN /\ backend' = [backend EXCEPT !.unregisterCalls = @ + 1,
                                     !.released = @ \cup {state.regHandle},
                                     !.registered = FALSE]
       /\ state' = [state EXCEPT !.enabled = 0, !.level = 0, !.keywords = 0]
  ELSE UNCHANGED <<backend, state>>

\* void EtwProvider::Unregister()
Unregister ==
  IF state.regHandle # 0
  THEN /\ backend' = [backend EXCEPT !.unregisterCalls = @ + 1,
                                     !.released = @ \cup {state.regHandle},
                                     !.registered = FALSE]
       /\ state' = [state EXCEPT !.regHandle = 0, !.enabled = 0,
                                 !.level = 0, !.keywords = 0]
  ELSE UNCHANGED <<backend, state>>

(***************************************************************************)
(* The event catalog of V8Provider (EventInfo: id, level, opcode, task,    *)
(* keywords) and the metadata each Log* function declares.                 *)
(***************************************************************************)
EventInfo(id, level, opcode, task, keywords) ==
  [id |-> id, level |-> level, opcode |-> opcode, task |-> task,
   keywords |-> keywords]

kTypePointer == IF SizeofPointer = 8 THEN kTypeHexInt64 ELSE kTypeHexInt32

kMethodLoadEvent == EventInfo(9, kLevelInfo, 10, 1, kJScriptRuntimeKeyword)
kSourceLoadEvent == EventInfo(41, kLevelInfo, 12, 2, kJScriptRuntimeKeyword)
kMsgEvent == EventInfo(100, kLevelInfo, 0, 0, 0)
kInitializePlatformEvent == EventInfo(101, kLevelInfo, 0, 0, 0)
kShutdownPlatformEvent == EventInfo(102, kLevelInfo, 0, 0, 0)
kInitializeV8Event == EventInfo(103, kLevelInfo, 0, 0, 0)
kTearDownV8Event == EventInfo(104, kLevelInfo, 0, 0, 0)
kIsolateStartEvent == EventInfo(105, kLevelInfo, kOpCodeStart, 0, 0)
kIsolateStopEvent == EventInfo(106, kLevelInfo, kOpCodeStop, 0, 0)
kSnapshotInitStartEvent == EventInfo(107, kLevelInfo, kOpCodeStart, 0, 0)
kSnapshotInitStopEvent == EventInfo(108, kLevelInfo, kOpCodeStop, 0, 0)
kParsingStartEvent == EventInfo(109, kLevelVerbose, kOpCodeStart, 0, 0)
kParsingStopEvent == EventInfo(110, kLevelVerbose, kOpCodeStop, 0, 0)
kGenerateUnoptimizedCodeStartEvent == EventInfo(111, kLevelVerbose, kOpCodeStart, 0, 0)
kGenerateUnoptimizedCodeStopEvent == EventInfo(112, kLevelVerbose, kOpCodeStop, 0, 0)
kJitExecuteStartEvent == EventInfo(113, kLevelVerbose, kOpCodeStart, 0, 0)
kJitExecuteStopEvent == EventInfo(114, kLevelVerbose, kOpCodeStop, 0, 0)
kJitFinalizeStartEvent == EventInfo(115, kLevelVerbose, kOpCodeStart, 0, 0)
kJitFinalizeStopEvent == EventInfo(116, kLevelVerbose, kOpCodeStop, 0, 0)
kConcurrentMarkingStartEvent == EventInfo(117, kLevelVerbose, kOpCodeStart, 0, 0)
kConcurrentMarkingStopEvent == EventInfo(118, kLevelVerbose, kOpCodeStop, 0, 0)
kDeoptEvent == EventInfo(119, kLevelVerbose, 0, 0, 0)
kDisableOptEvent == EventInfo(120, kLevelVerbose, 0, 0, 0)

Field(name, type) == [name |-> name, type |-> type]
EventMetadata(name, fields) == [name |-> name, fields |-> fields]

(***************************************************************************)
(* LogEventData(state, descriptor, metadata, args...): the write calls it  *)
(* makes, none or one.  It re-checks the eligibility of the event against  *)
(* the state and hands the event to the backend's write call, whose result *)
(* it ignores.  `args` are the values of the arguments after the metadata, *)
(* `types` their C++ types at the call site.                               *)
(***************************************************************************)
\* An eligibility test that looks at `enabled` only.
EligibleWhenEnabled(s, event) == s.enabled # 0

\* The C++ argument types the marshalling takes for a field of a declared
\* type: text for the string types, the integer of that width and sign by
\* value, a pointer for the pointer-sized hex type.
CTypesOf(type) ==
  CASE type = kTypeAnsiStr -> {"const char*", "std::string"}
    [] type = kTypeUnicodeStr -> {"std::wstring"}
    [] type = kTypeInt32 -> {"int"}
    [] type = kTypeUInt16 -> {"uint16_t"}
    [] type = kTypeUInt32 -> {"uint32_t"}
    [] type = kTypeUInt64 -> {"uint64_t"}
    [] type = kTypePointer -> {"void*"}
    [] OTHER -> {}

Eligible(s, event) ==
  /\ s.enabled # 0
  /\ event.level <= s.level
  /\ (event.keywords = 0 \/ BitAnd(event.keywords, s.keywords) # 0)

LogEventData(s, event, meta, args, types) ==
  IF Eligible(s, event)
  THEN << [id |-> event.id, event |-> meta.name, fields |-> meta.fields,
           args |-> args, types |-> types] >>
  ELSE << >>

\* What the backend's write call answers; the caller does not look at it.
WriteResults == {"written", "failed"}

\* A write call repeated once when the backend fails it.
EventWriteRetrying(attempts, results) ==
  LET failed == {i \in DOMAIN attempts : results[i] = "failed"}
  IN  [attempts |-> attempts
                    \o (IF failed = {} THEN << >>
                        ELSE <<attempts[CHOOSE i \in failed : TRUE]>>),
       dropped |-> failed]

\* The write calls made for the events LogEventData hands on, results[i]
\* being the backend's answer to the i-th: one call each, a failed one is
\* dropped.
EventWrite(attempts, results) ==
  [attempts |-> attempts,
   dropped |-> {i \in DOMAIN attempts : results[i] = "failed"}]

(***************************************************************************)
(* The script cache: isolate -> (script id -> name), on the heap.          *)
(***************************************************************************)
EmptyMap == << >>

\* new ScriptMapType()
NewScriptMap == [status |-> "live", map |-> EmptyMap]

\* The pointer names an object that was allocated and not deleted.
MapUsable == isolate_script_map # 0 /\ heap[isolate_script_map].status = "live"

\* The cache as the program can read it.
ScriptMap == IF MapUsable THEN heap[isolate_script_map].map ELSE EmptyMap

\* A lookup that takes the sub-map of whichever isolate came first.
SubMapOfAnyIsolate(m, script_context) ==
  IF DOMAIN m = {} THEN << >> ELSE m[CHOOSE k \in DOMAIN m : TRUE]

\* (*isolate_script_map)[script_context]: operator[] creates the sub-map.
SubMapOf(m, script_context) ==
  IF script_context \in DOMAIN m THEN m[script_context] ELSE << >>

\* A lookup that never finds the script.
CacheMissAlways(script_map, script_id) == TRUE

\* script_map.find(script_id) == script_map.end()
CacheMiss(script_map, script_id) == script_id \notin DOMAIN script_map

\* script_map.emplace(script_id, name), on a miss.
Emplace(script_map, script_id, name) ==
  [k \in DOMAIN script_map \cup {script_id} |->
     IF k = script_id THEN name ELSE script_map[k]]

\* The map with the sub-map of script_context replaced.
WithSubMap(m, script_context, script_map) ==
  [k \in DOMAIN m \cup {script_context} |->
     IF k = script_context THEN script_map ELSE m[k]]

\* (isolate, script id) is a key of the cache.
Cached(m, script_context, script_id) ==
  script_context \in DOMAIN m /\ script_id \in DOMAIN m[script_context]

(***************************************************************************)
(* Text conversions of LogCodeEvent.                                       *)
(***************************************************************************)
IsCont(b) == 128 <= b /\ b <= 191

\* The UTF-16 code units of the UTF-8 bytes; an ill-formed byte becomes
\* U+FFFD, a code point above U+FFFF a surrogate pair.
RECURSIVE Utf8ToUtf16(_)
Utf8ToUtf16(bytes) ==
  IF bytes = << >> THEN << >>
  ELSE
    LET n  == Len(bytes)
        b0 == bytes[1]
        c2 == (b0 - 192) * 64 + (bytes[2] - 128)
        c3 == (b0 - 224) * 4096 + (bytes[2] - 128) * 64 + (bytes[3] - 128)
        c4 == (b0 - 240) * 262144 + (bytes[2] - 128) * 4096
                + (bytes[3] - 128) * 64 + (bytes[4] - 128)
    IN  IF b0 < 128
          THEN <<b0>> \o Utf8ToUtf16(SubSeq(bytes, 2, n))
        ELSE IF 194 <= b0 /\ b0 <= 223 /\ n >= 2 /\ IsCont(bytes[2])
          THEN <<c2>> \o Utf8ToUtf16(SubSeq(bytes, 3, n))
        ELSE IF 224 <= b0 /\ b0 <= 239 /\ n >= 3 /\ IsCont(bytes[2])
                /\ IsCont(bytes[3]) /\ c3 >= 2048
                /\ ~(55296 <= c3 /\ c3 <= 57343)
          THEN <<c3>> \o Utf8ToUtf16(SubSeq(bytes, 4, n))
        ELSE IF 240 <= b0 /\ b0 <= 244 /\ n >= 4 /\ IsCont(bytes[2])
                /\ IsCont(bytes[3]) /\ IsCont(bytes[4])
                /\ c4 >= 65536 /\ c4 <= 1114111
          THEN <<55296 + ((c4 - 65536) \div 1024),
                 56320 + ((c4 - 65536) % 1024)>>
               \o Utf8ToUtf16(SubSeq(bytes, 5, n))
        ELSE <<65533>> \o Utf8ToUtf16(SubSeq(bytes, 2, n))

\* std::wstring method_name(name_len + 1, 0) after MultiByteToWideChar wrote
\* the converted name at its start: size name_len + 1, zero filled.
MethodName(bytes) ==
  LET units == Utf8ToUtf16(bytes)
  IN  [i \in 1 .. (Len(bytes) + 1) |-> IF i <= Len(units) THEN units[i] ELSE 0]

\* A wide string as the write call takes it: the text before its first null.
RECURSIVE WideText(_)
WideText(w) ==
  IF w = << >> \/ w[1] = 0 THEN << >>
  ELSE <<w[1]>> \o WideText(SubSeq(w, 2, Len(w)))

\* The name LogCodeEvent stores for a script: GetScriptName() copied when it
\* is a string, the sentinel otherwise.
UnknownScriptName == "[unknown]"
\* The resolution with an empty name for a name that is not a string.
ResolvedScriptNameOrEmpty(script) ==
  IF script.name.isString THEN script.name.str ELSE ""

ResolvedScriptName(script) ==
  IF script.name.isString THEN script.name.str ELSE UnknownScriptName

(***************************************************************************)
(* The code-event notifications explored (JitCodeEvent).                   *)
(***************************************************************************)
NoScript == [empty |-> TRUE]
Script(id, name) == [empty |-> FALSE, id |-> id, name |-> name]
StringName(str) == [isString |-> TRUE, str |-> str]
NotAString == [isString |-> FALSE]

JitCodeEvent(code_type, type, isolate, script) ==
  [code_type |-> code_type, type |-> type, isolate |-> isolate,
   code_start |-> 4096, code_len |-> 64, name |-> <<102, 195, 169>>,
   script |-> script]

CodeEventInputs ==
  { JitCodeEvent("JIT_CODE", "CODE_ADDED", "X", Script(7, StringName("a.js"))),
    JitCodeEvent("JIT_CODE", "CODE_ADDED", "Y", Script(7, NotAString)),
    JitCodeEvent("JIT_CODE", "CODE_ADDED", "X", NoScript),
    JitCodeEvent("BYTE_CODE", "CODE_ADDED", "X", Script(7, StringName("a.js"))),
    JitCodeEvent("JIT_CODE", "CODE_MOVED", "X", Script(7, StringName("a.js"))) }

(***************************************************************************)
(* V8Provider::LogCodeEvent on a usable cache m: the cache it leaves and   *)
(* the write calls it makes.                                               *)
(***************************************************************************)
source_load_event_meta ==
  EventMetadata("SourceLoad",
    <<Field("SourceID", kTypeUInt64), Field("ScriptContextID", kTypePointer),
      Field("SourceFlags", kTypeUInt32), Field("Url", kTypeUnicodeStr)>>)

method_load_event_meta ==
  EventMetadata("MethodLoad",
    <<Field("ScriptContextID", kTypePointer),
      Field("MethodStartAddress", kTypePointer),
      Field("MethodSize", kTypeUInt64), Field("MethodID", kTypeUInt32),
      Field("MethodFlags", kTypeUInt16),
      Field("MethodAddressRangeID", kTypeUInt16),
      Field("SourceID", kTypeUInt64), Field("Line", kTypeUInt32),
      Field("Column", kTypeUInt32), Field("MethodName", kTypeUnicodeStr)>>)

\* The casts and declared types of the arguments of the two calls.
SourceLoadTypes == <<"uint64_t", "void*", "uint32_t", "std::wstring">>

MethodLoadTypes ==
  <<"void*", "void*", "uint64_t", "uint32_t", "uint16_t", "uint16_t",
    "uint64_t", "uint32_t", "uint32_t", "std::wstring">>

SourceLoadArgs(script_id, script_context, url) ==
  <<script_id, script_context, 0, url>>

\* The arguments with the script id in the place of the method id.
MethodLoadArgsIdAsMethodId(script_context, event, script_id, method_name) ==
  <<script_context, event.code_start, event.code_len, script_id, 0, 0, 0,
    0, 0, WideText(method_name)>>

MethodLoadArgs(script_context, event, script_id, method_name) ==
  <<script_context, event.code_start, event.code_len, 0, 0, 0, script_id,
    0, 0, WideText(method_name)>>

\* A test of code_type that lets every code type pass.
AnyCodeType(event) == TRUE

\* event->code_type == JIT_CODE and event->type == CODE_ADDED
IsJitCode(event) == event.code_type = "JIT_CODE"
IsCodeAdded(event) == event.type = "CODE_ADDED"

\* The two LogEventData calls of LogCodeEvent.
LogSourceLoad(s, script_id, script_context, url) ==
  LogEventData(s, kSourceLoadEvent, source_load_event_meta,
               SourceLoadArgs(script_id, script_context, url), SourceLoadTypes)

LogMethodLoad(s, script_context, event, script_id, method_name) ==
  LogEventData(s, kMethodLoadEvent, method_load_event_meta,
               MethodLoadArgs(script_context, event, script_id, method_name),
               MethodLoadTypes)

LogCodeEvent(s, m, event) ==
  IF ~IsJitCode(event) THEN [map |-> m, writes |-> << >>]
  ELSE IF ~IsCodeAdded(event) THEN [map |-> m, writes |-> << >>]
  ELSE
    LET method_name    == MethodName(event.name)
        script_context == event.isolate
    IN  IF event.script.empty
        THEN [map |-> m,
              writes |-> LogMethodLoad(s, script_context, event, 0, method_name)]
        ELSE
          LET script_id  == event.script.id
              script_map == SubMapOf(m, script_context)
              miss       == CacheMiss(script_map, script_id)
              filled     == IF miss
                            THEN Emplace(script_map, script_id,
                                         ResolvedScriptName(event.script))
                            ELSE script_map
              url        == filled[script_id]
          IN  [map |-> WithSubMap(m, script_context, filled),
               writes |->
                 (IF miss
                  THEN LogSourceLoad(s, script_id, script_context, url)
                  ELSE << >>)
                 \o LogMethodLoad(s, script_context, event, script_id,
                                  method_name)]

\* The notification reads the cache: a JIT code-added event with a script.
TouchesCache(event) ==
  /\ IsJitCode(event)
  /\ IsCodeAdded(event)
  /\ ~event.script.empty

\* A gate that tests `enabled` only.
HandlerGateEnabledOnly(s) == IsEnabled(s)

\* The gate of V8Provider::CodeEventHandler.
HandlerGate(s) == ~(~IsEnabled(s) \/ Level(s) < kLevelInfo)

(***************************************************************************)
(* History: what the last step wrote, per script.                          *)
(***************************************************************************)
IsSourceLoadOf(w, script_context, script_id) ==
  w.event = "SourceLoad" /\ w.args[1] = script_id /\ w.args[2] = script_context

IsMethodLoadOf(w, script_context, script_id) ==
  w.event = "MethodLoad" /\ w.args[1] = script_context /\ w.args[7] = script_id

SourceLoads(log, script_context, script_id) ==
  Cardinality({i \in DOMAIN log : IsSourceLoadOf(log[i], script_context, script_id)})

MethodLoads(log, script_context, script_id) ==
  Cardinality({i \in DOMAIN log : IsMethodLoadOf(log[i], script_context, script_id)})

\* The run of consecutive notifications of one script, delivered while both
\* of its events are eligible, that began with the script not yet cached.
NextRun(event, writes) ==
  IF ~TouchesCache(event) THEN NoRun
  ELSE
    LET key  == <<event.isolate, event.script.id>>
        both == IsEnabledEvent(state, kSourceLoadEvent)
                  /\ IsEnabledEvent(state, kMethodLoadEvent)
        src  == SourceLoads(writes, key[1], key[2])
        meth == MethodLoads(writes, key[1], key[2])
    IN  IF ~both THEN NoRun
        ELSE IF run.n > 0 /\ run.key = key
          THEN [key |-> key, n |-> run.n + 1, src |-> run.src + src,
                meth |-> run.meth + meth]
        ELSE IF ~Cached(ScriptMap, key[1], key[2])
          THEN [key |-> key, n |-> 1, src |-> src, meth |-> meth]
        ELSE NoRun

(***************************************************************************)
(* The entry points.                                                       *)
(***************************************************************************)
\* The entry point called and what tells its calls apart: the providerState
\* of a callback, the level of the event of a wrapper, the place where
\* CodeEventHandler returned.
Op(name, arg) == [name |-> name, arg |-> arg]

BothEligible(s) ==
  IsEnabledEvent(s, kSourceLoadEvent) /\ IsEnabledEvent(s, kMethodLoadEvent)

\* The heap once isolate_script_map is overwritten: the object it named
\* stays allocated (it is leaked), and since nothing can read it any more
\* its content is no longer recorded.
Unreachable(h, p) ==
  IF p = 0 THEN h ELSE [h EXCEPT ![p].map = EmptyMap]

\* void V8Provider::RegisterEtwProvider()
RegisterEtwProvider ==
  /\ ~terminated
  /\ Len(heap) < MaxMaps
  /\ heap' = Append(Unreachable(heap, isolate_script_map), NewScriptMap)
  /\ isolate_script_map' = Len(heap) + 1
  /\ Register
  /\ UNCHANGED <<written, terminated, session, probe, threads>>
  /\ lastOp' = Op("RegisterEtwProvider", 0)
  /\ run' = NoRun

\* delete isolate_script_map, when it is not null.  Deleting an object a
\* second time is undefined: the process is stopped, or goes on.
DeleteScriptMap ==
  IF isolate_script_map = 0
    THEN UNCHANGED <<heap, terminated>>
  ELSE IF heap[isolate_script_map].status = "live"
    THEN /\ heap' = [heap EXCEPT ![isolate_script_map] =
                        [status |-> "freed", map |-> EmptyMap]]
         /\ UNCHANGED terminated
  ELSE /\ \E outcome \in {"abort", "continue"} :
            terminated' = (outcome = "abort")
       /\ UNCHANGED heap

\* void V8Provider::UnregisterEtwProvider()
UnregisterEtwProvider ==
  /\ ~terminated
  /\ Unregister
  /\ DeleteScriptMap
  /\ UNCHANGED <<hr, isolate_script_map, written, session, probe, threads>>
  /\ lastOp' = Op("UnregisterEtwProvider", 0)
  /\ run' = NoRun

\* EtwProvider::Callback, invoked by the controller for a live registration.
Callback(providerState, level, matchAnyKeyword, allKeyword) ==
  /\ ~terminated
  /\ backend.registered
  /\ state' = CallbackState(state, providerState, level, matchAnyKeyword,
                            allKeyword)
  /\ UNCHANGED <<hr, isolate_script_map, heap, backend, written, terminated,
                 probe, threads>>
  /\ lastOp' = Op("Callback", providerState)
  /\ session' = CASE providerState = 0 -> "disabled"
                   [] providerState = 1 -> "enabled"
                   [] OTHER -> session
  /\ run' = IF BothEligible(state') THEN run ELSE NoRun

\* Where CodeEventHandler and the LogCodeEvent it calls return: at the
\* gate, at the test of code_type, past the skipped test of type, or at the
\* end of the code-added branch.
HandlerReturn(s, event) ==
  IF ~HandlerGate(s) THEN "gate"
  ELSE IF ~IsJitCode(event) THEN "code_type"
  ELSE IF ~IsCodeAdded(event) THEN "type"
  ELSE "added"

\* LogCodeEvent reading the cache through a null or dangling pointer is
\* undefined: the process is stopped, or the lookup answers either way.
LogCodeEventUndefined(event, cap) ==
  \E outcome \in {"abort", "hit", "miss"} :
    LET script_context == event.isolate
        script_id      == event.script.id
        writes ==
          (IF outcome = "miss"
           THEN LogSourceLoad(state, script_id, script_context,
                              ResolvedScriptName(event.script))
           ELSE << >>)
          \o LogMethodLoad(state, script_context, event, script_id,
                           MethodName(event.name))
    IN  /\ terminated' = (outcome = "abort")
        /\ written' = IF outcome = "abort" THEN written ELSE written \o writes
        /\ Len(written') <= cap
        /\ UNCHANGED <<heap, backend>>
        /\ run' = NoRun

\* static void V8Provider::CodeEventHandler(const JitCodeEvent* event),
\* explored while the log holds at most cap writes, the backend answering
\* each write call with one of `answers`.
CodeEventHandlerWriting(event, cap, answers) ==
  /\ ~terminated
  /\ IF ~HandlerGate(state)
       THEN /\ UNCHANGED <<heap, written, terminated, backend>>
            /\ run' = NoRun
     ELSE IF TouchesCache(event) /\ ~MapUsable
       THEN LogCodeEventUndefined(event, cap)
     ELSE LET r == LogCodeEvent(state, ScriptMap, event)
          IN  \E results \in [DOMAIN r.writes -> answers] :
                LET w == EventWrite(r.writes, results)
                IN  /\ Len(written) + Len(w.attempts) <= cap
                    /\ written' = written \o w.attempts
                    /\ backend' =
                         [backend EXCEPT
                            !.dropped = @ \cup {Len(written) + i : i \in w.dropped}]
                    /\ heap' = IF TouchesCache(event)
                               THEN [heap EXCEPT
                                       ![isolate_script_map].map = r.map]
                               ELSE heap
                    /\ UNCHANGED terminated
                    /\ run' = NextRun(event, w.attempts)
  /\ UNCHANGED <<state, hr, isolate_script_map, session, probe, threads>>
  /\ lastOp' = Op("CodeEventHandler", HandlerReturn(state, event))

\* The handler with a backend that accepts every write.
CodeEventHandler(event, cap) ==
  CodeEventHandlerWriting(event, cap, {"written"})

(***************************************************************************)
(* The public event wrappers of V8Provider and the Log* function each      *)
(* calls: `checks` is the wrapper's own IsEnabled() test, `logs` is FALSE  *)
(* for a wrapper with an empty body, `args` are the arguments the Log*     *)
(* function passes to LogEventData after the metadata, `types` their C++   *)
(* types.                                                                  *)
(***************************************************************************)
Wrapper(name, checks, logs, info, meta, args, types) ==
  [name |-> name, checks |-> checks, logs |-> logs, info |-> info,
   meta |-> meta, args |-> args, types |-> types]

IsolateField == <<Field("isolate", kTypePointer)>>

DeoptFields ==
  <<Field("reason", kTypeAnsiStr), Field("kind", kTypeAnsiStr),
    Field("src", kTypeAnsiStr), Field("fn", kTypeAnsiStr),
    Field("line", kTypeInt32), Field("column", kTypeInt32)>>

PublicWrappers ==
  { Wrapper("Msg", TRUE, TRUE, kMsgEvent,
            EventMetadata("Msg", <<Field("Msg", kTypeAnsiStr)>>),
            <<"msg">>,
            <<"const char*">>),
    Wrapper("InitializePlatform", FALSE, TRUE, kInitializePlatformEvent,
            EventMetadata("InitializePlatform", << >>),
            << >>,
            << >>),
    Wrapper("ShutdownPlatform", FALSE, TRUE, kShutdownPlatformEvent,
            EventMetadata("ShutdownPlatform", << >>),
            << >>,
            << >>),
    Wrapper("InitializeV8", FALSE, TRUE, kInitializeV8Event,
            EventMetadata("InitializeV8", << >>),
            << >>,
            << >>),
    Wrapper("TearDownV8", FALSE, TRUE, kTearDownV8Event,
            EventMetadata("TearDownV8", << >>),
            << >>,
            << >>),
    Wrapper("IsolateStart", FALSE, TRUE, kIsolateStartEvent,
            EventMetadata("IsolateStart", IsolateField),
            <<"X">>,
            <<"void*">>),
    Wrapper("IsolateStop", FALSE, TRUE, kIsolateStopEvent,
            EventMetadata("IsolateStop", IsolateField),
            <<"X">>,
            <<"void*">>),
    Wrapper("SnapshotInitStart", FALSE, TRUE, kSnapshotInitStartEvent,
            EventMetadata("SnapshotInitStart", IsolateField),
            <<"X">>,
            <<"void*">>),
    Wrapper("SnapshotInitStop", FALSE, TRUE, kSnapshotInitStopEvent,
            EventMetadata("SnapshotInitStop", IsolateField),
            <<"X">>,
            <<"void*">>),
    Wrapper("ParsingStart", TRUE, TRUE, kParsingStartEvent,
            EventMetadata("ParsingStart", IsolateField),
            <<"X">>,
            <<"void*">>),
    Wrapper("ParsingStop", TRUE, TRUE, kParsingStopEvent,
            EventMetadata("ParsingStop", IsolateField),
            <<"X">>,
            <<"void*">>),
    Wrapper("GenerateUnoptimizedCodeStart", TRUE, TRUE, kGenerateUnoptimizedCodeStartEvent,
            EventMetadata("GenerateUnoptimizedCodeStart", IsolateField),
            <<"X">>,
            <<"void*">>),
    Wrapper("GenerateUnoptimizedCodeStop", TRUE, TRUE, kGenerateUnoptimizedCodeStopEvent,
            EventMetadata("GenerateUnoptimizedCodeStop", IsolateField),
            <<"X">>,
            <<"void*">>),
    Wrapper("JitExecuteStart", TRUE, TRUE, kJitExecuteStartEvent,
            EventMetadata("JitExecuteStart", << >>),
            << >>,
            << >>),
    Wrapper("JitExecuteStop", TRUE, TRUE, kJitExecuteStopEvent,
            EventMetadata("JitExecuteStop", << >>),
            << >>,
            << >>),
    Wrapper("JitFinalizeStart", TRUE, TRUE, kJitFinalizeStartEvent,
            EventMetadata("JitFinalizeStart", << >>),
            << >>,
            << >>),
    Wrapper("JitFinalizeStop", TRUE, TRUE, kJitFinalizeStopEvent,
            EventMetadata("JitFinalizeStop", << >>),
            << >>,
            << >>),
    Wrapper("ConcurrentMarkingStart", FALSE, FALSE, kConcurrentMarkingStartEvent,
            EventMetadata("ConcurrentMarkingStart", << >>),
            << >>,
            << >>),
    Wrapper("ConcurrentMarkingStop", FALSE, FALSE, kConcurrentMarkingStopEvent,
            EventMetadata("ConcurrentMarkingStop", << >>),
            << >>,
            << >>),
    Wrapper("Deopt", FALSE, TRUE, kDeoptEvent,
            EventMetadata("Deopt", DeoptFields),
            <<"reason", "kind", "src", "fn", 1, 2>>,
            <<"std::string", "std::string", "std::string", "std::string", "int",
              "int">>),
    Wrapper("DisableOpt", FALSE, TRUE, kDisableOptEvent,
            EventMetadata("DisableOpt", << >>),
            <<Field("fn", kTypeAnsiStr), Field("reason", kTypeAnsiStr)>>,
            <<"Field", "Field">>) }

\* The write calls of one wrapper call.
PublicWrites(s, w) ==
  IF ~w.logs THEN << >>
  ELSE IF w.checks /\ ~IsEnabled(s) THEN << >>
  ELSE LogEventData(s, w.info, w.meta, w.args, w.types)

\* A public wrapper of V8Provider: Msg, InitializePlatform, ..., DisableOpt.
PublicEvent(w) ==
  /\ ~terminated
  /\ LET writes == PublicWrites(state, w)
     IN  /\ Len(written) + Len(writes) <= MaxPublicWrites
         /\ written' = written \o writes
  /\ UNCHANGED <<state, hr, isolate_script_map, heap, backend, terminated,
                 session, run, probe, threads>>
  /\ lastOp' = Op("PublicEvent", w.info.level)

Next ==
  \/ RegisterEtwProvider
  \/ UnregisterEtwProvider
  \/ \E c \in CallbackInputs :
        Callback(c.providerState, c.level, c.matchAnyKeyword, c.allKeyword)
  \/ \E event \in CodeEventInputs : CodeEventHandler(event, MaxWrites)

Spec == Init /\ [][Next]_vars

NextAll ==
  \/ RegisterEtwProvider
  \/ UnregisterEtwProvider
  \/ \E c \in CallbackInputs :
        Callback(c.providerState, c.level, c.matchAnyKeyword, c.allKeyword)
  \/ \E event \in CodeEventInputs : CodeEventHandler(event, MaxPublicWrites)
  \/ \E w \in PublicWrappers : PublicEvent(w)

SpecAll == Init /\ [][NextAll]_vars

(***************************************************************************)
(* The registered provider with a backend that may fail any write call.    *)
(***************************************************************************)
MaxFailWrites == 3

\* The state the first RegisterEtwProvider leaves, the backend having
\* accepted the registration.
RegisteredProvider ==
  /\ state = [InitialState EXCEPT
                !.regHandle = BackendHandle,
                !.provider_trait = ProviderTrait(kProviderName)]
  /\ hr = [initialized |-> TRUE, value |-> ErrorSuccess]
  /\ isolate_script_map = 1
  /\ heap = <<NewScriptMap>>
  /\ backend = [registered |-> TRUE, registerCalls |-> 1, unregisterCalls |-> 0,
                released |-> {}, dropped |-> {}]
  /\ written = << >>
  /\ terminated = FALSE
  /\ lastOp = Op("RegisterEtwProvider", 0)
  /\ session = "none"
  /\ run = NoRun

InitRegistered ==
  /\ RegisteredProvider
  /\ probe = NoProbe
  /\ threads = NoThreads

NextWriteFailure ==
  \/ \E c \in CallbackInputs :
        Callback(c.providerState, c.level, c.matchAnyKeyword, c.allKeyword)
  \/ \E event \in CodeEventInputs :
        CodeEventHandlerWriting(event, MaxFailWrites, WriteResults)

SpecWriteFailure == InitRegistered /\ [][NextWriteFailure]_vars

(***************************************************************************)
(* The enable checks as functions of the provider state: every state the   *)
(* three fields can hold (a reader that runs during UpdateState or         *)
(* Unregister sees any mixture of them) and every event level and keyword  *)
(* mask of three bits.                                                     *)
(***************************************************************************)
ProbeLevels == (kLevelNone .. kLevelVerbose) \cup {255}
ProbeKeywords == 0 .. 7
ProbeStates ==
  { [InitialState EXCEPT !.enabled = e, !.level = l, !.keywords = k] :
      e \in {0, 1}, l \in ProbeLevels, k \in ProbeKeywords }
ProbeEvents ==
  { EventInfo(1, l, 0, 0, k) : l \in ProbeLevels, k \in ProbeKeywords }

InitEligibility ==
  /\ state \in ProbeStates
  /\ InitRest

\* A call of IsEnabled() and of IsEnabled(event).
Probe(event) ==
  /\ probe' = [asked |-> TRUE, event |-> event,
               enabled |-> IsEnabled(state),
               eventEnabled |-> IsEnabledEvent(state, event)]
  /\ UNCHANGED <<state, hr, isolate_script_map, heap, backend, written,
                 terminated, lastOp, session, run, threads>>

NextEligibility == \E event \in ProbeEvents : Probe(event)

SpecEligibility == InitEligibility /\ [][NextEligibility]_vars

(***************************************************************************)
(* The build without V8_ETW: every public operation is an inline no-op.    *)
(* A call site is written against the build with V8_ETW and compiled       *)
(* against the build without it.                                           *)
(***************************************************************************)
Operation(name, params) == [name |-> name, params |-> params]

IsolateOperations ==
  {"IsolateStart", "IsolateStop", "SnapshotInitStart", "SnapshotInitStop"}

CompileOperations ==
  {"ParsingStart", "ParsingStop", "GenerateUnoptimizedCodeStart",
   "GenerateUnoptimizedCodeStop"}

PlainOperations ==
  {"InitializePlatform", "ShutdownPlatform", "InitializeV8", "TearDownV8",
   "JitExecuteStart", "JitExecuteStop", "JitFinalizeStart",
   "JitFinalizeStop", "ConcurrentMarkingStart", "ConcurrentMarkingStop"}

DeoptParameters ==
  <<"const std::string&", "const std::string&", "const std::string&",
    "const std::string&", "int", "int">>

\* Operations with the same declaration in both builds.
SharedOperations ==
  { Operation("Register", <<"const GUID&", "const char*">>),
    Operation("Unregister", << >>),
    Operation("Level", << >>),
    Operation("Keywords", << >>),
    Operation("IsEnabled", << >>),
    Operation("IsEnabled", <<"const EventInfo&">>),
    Operation("RegisterEtwProvider", << >>),
    Operation("UnregisterEtwProvider", << >>),
    Operation("Msg", <<"const char*">>),
    Operation("Deopt", DeoptParameters),
    Operation("DisableOpt", <<"const std::string&", "const std::string&">>),
    Operation("CodeEventHandler", <<"const JitCodeEvent*">>) }
  \cup { Operation(n, << >>) : n \in PlainOperations }
  \cup { Operation(n, <<"void*">>) : n \in IsolateOperations }

\* The public operations of the build with V8_ETW.
EtwOperations ==
  SharedOperations \cup { Operation(n, <<"void*">>) : n \in CompileOperations }

\* The public operations of the build without V8_ETW.
NoEtwOperations ==
  SharedOperations
  \cup { Operation("ParsingStart", <<"const char*", "int">>),
         Operation("ParsingStop", << >>),
         Operation("GenerateUnoptimizedCodeStart", << >>),
         Operation("GenerateUnoptimizedCodeStop", << >>) }

\* What an operation of the build without V8_ETW returns.
NoEtwResult(name) ==
  CASE name \in {"Register", "Level", "Keywords"} -> "0"
    [] name = "IsEnabled" -> "false"
    [] OTHER -> "void"

\* The call compiles when the build declares the name with these parameters.
WellFormed(operations, name, args) ==
  \E op \in operations : op.name = name /\ op.params = args

NoEtwIsolates == {"X", "Y", "Z"}

ArgumentValues(op) ==
  IF op.params = <<"void*">> THEN NoEtwIsolates
  ELSE IF op.name \in {"Register", "Msg", "Deopt", "DisableOpt"}
       THEN {"a", "b"}
       ELSE {"-"}

InitNoEtw ==
  /\ state = InitialState
  /\ InitRest

\* One call, written as the build with V8_ETW declares the operation, of a
\* provider built without V8_ETW: no field is written, nothing is handed to
\* the backend.
NoEtwCall(op, value) ==
  /\ probe' = [asked |-> TRUE, name |-> op.name, args |-> op.params,
               value |-> value,
               wellFormed |-> WellFormed(NoEtwOperations, op.name, op.params),
               result |-> NoEtwResult(op.name)]
  /\ UNCHANGED <<state, hr, isolate_script_map, heap, backend, written,
                 terminated, lastOp, session, run, threads>>

\* IsEnabled(event) of a provider built without V8_ETW.
NoEtwIsEnabled(event) ==
  /\ probe' = [asked |-> TRUE, name |-> "IsEnabled",
               args |-> <<"const EventInfo&">>, value |-> event,
               wellFormed |-> WellFormed(NoEtwOperations, "IsEnabled",
                                         <<"const EventInfo&">>),
               result |-> NoEtwResult("IsEnabled")]
  /\ UNCHANGED <<state, hr, isolate_script_map, heap, backend, written,
                 terminated, lastOp, session, run, threads>>

NextNoEtw ==
  \/ \E op \in EtwOperations \ {Operation("IsEnabled", <<"const EventInfo&">>)} :
       \E value \in ArgumentValues(op) : NoEtwCall(op, value)
  \/ \E event \in ProbeEvents : NoEtwIsEnabled(event)

SpecNoEtw == InitNoEtw /\ [][NextNoEtw]_vars

(***************************************************************************)
(* The decoding of the name of a notification, as a function of its bytes. *)
(***************************************************************************)
MaxNameChars == 3

\* Well-formed UTF-8 characters of one to four bytes: U+0000, "f", U+00E9,
\* U+20AC, U+1F600.
Utf8Characters ==
  {<<0>>, <<102>>, <<195, 169>>, <<226, 130, 172>>, <<240, 159, 152, 128>>}

\* The names of at most n characters.
RECURSIVE NamesOf(_)
NamesOf(n) ==
  IF n = 0 THEN {<< >>}
  ELSE LET shorter == NamesOf(n - 1)
       IN  shorter \cup { name \o c : name \in shorter, c \in Utf8Characters }

InitDecode ==
  /\ state = InitialState
  /\ InitProvider
  /\ probe \in { [asked |-> FALSE, bytes |-> name] : name \in NamesOf(MaxNameChars) }

\* The name field of the method-load written for event->name.
DecodeName ==
  /\ ~probe.asked
  /\ probe' = [asked |-> TRUE, bytes |-> probe.bytes,
               name |-> WideText(MethodName(probe.bytes))]
  /\ UNCHANGED <<state, hr, isolate_script_map, heap, backend, written,
                 terminated, lastOp, session, run, threads>>

NextDecode == DecodeName

SpecDecode == InitDecode /\ [][NextDecode]_vars

(***************************************************************************)
(* One controller callback and one IsEnabled(event) on two threads, with   *)
(* no synchronisation: each write of UpdateState and each read of          *)
(* IsEnabled(event) is a step of its own.                                  *)
(***************************************************************************)
RaceEvents ==
  { EventInfo(1, l, 0, 0, k) : l \in {kLevelInfo, kLevelVerbose}, k \in 0 .. 2 }
  \cup {kMethodLoadEvent, kMsgEvent}

UpdatingCallbacks == { c \in CallbackInputs : c.providerState \in {0, 1} }

NoRace == [callback |-> [pc |-> "idle"], reader |-> [pc |-> "idle"]]

InitRace ==
  /\ RegisteredProvider
  /\ probe = NoProbe
  /\ threads = NoRace

\* A callback that runs with no other call in progress.
RaceCallback(c) ==
  /\ threads = NoRace
  /\ Callback(c.providerState, c.level, c.matchAnyKeyword, c.allKeyword)

\* The controller calls back on its thread while another thread calls
\* IsEnabled(event).
RaceStart(c, event) ==
  /\ threads = NoRace
  /\ threads' =
       [callback |-> [pc |-> "level",
                      isEnabled |-> (c.providerState = 1),
                      level |-> IF c.providerState = 1 THEN c.level ELSE 0,
                      keywords |-> IF c.providerState = 1
                                   THEN c.matchAnyKeyword ELSE 0],
        reader |-> [pc |-> "enabled", event |-> event, result |-> FALSE],
        before |-> state]
  /\ UNCHANGED <<state, hr, isolate_script_map, heap, backend, written,
                 terminated, lastOp, session, run, probe>>

\* state.level = level;
UpdateStateLevel ==
  /\ threads.callback.pc = "level"
  /\ state' = [state EXCEPT !.level = threads.callback.level]
  /\ threads' = [threads EXCEPT !.callback.pc = "keywords"]
  /\ UNCHANGED <<hr, isolate_script_map, heap, backend, written, terminated,
                 lastOp, session, run, probe>>

\* state.keywords = keywords;
UpdateStateKeywords ==
  /\ threads.callback.pc = "keywords"
  /\ state' = [state EXCEPT !.keywords = threads.callback.keywords]
  /\ threads' = [threads EXCEPT !.callback.pc = "enabled"]
  /\ UNCHANGED <<hr, isolate_script_map, heap, backend, written, terminated,
                 lastOp, session, run, probe>>

\* state.enabled = isEnabled;
UpdateStateEnabled ==
  /\ threads.callback.pc = "enabled"
  /\ state' = [state EXCEPT
                 !.enabled = IF threads.callback.isEnabled THEN 1 ELSE 0]
  /\ threads' = [threads EXCEPT !.callback.pc = "done"]
  /\ UNCHANGED <<hr, isolate_script_map, heap, backend, written, terminated,
                 lastOp, session, run, probe>>

\* if (!state.enabled) return false;
IsEnabledReadEnabled ==
  /\ threads.reader.pc = "enabled"
  /\ threads' = IF state.enabled = 0
                THEN [threads EXCEPT !.reader.pc = "done",
                                     !.reader.result = FALSE]
                ELSE [threads EXCEPT !.reader.pc = "level"]
  /\ UNCHANGED <<state, hr, isolate_script_map, heap, backend, written,
                 terminated, lastOp, session, run, probe>>

\* if (event.level > state.level) return false;
IsEnabledReadLevel ==
  /\ threads.reader.pc = "level"
  /\ threads' = IF threads.reader.event.level > state.level
                THEN [threads EXCEPT !.reader.pc = "done",
                                     !.reader.result = FALSE]
                ELSE [threads EXCEPT !.reader.pc = "keywords"]
  /\ UNCHANGED <<state, hr, isolate_script_map, heap, backend, written,
                 terminated, lastOp, session, run, probe>>

\* return event.keywords == 0 || (event.keywords & state.keywords);
IsEnabledReadKeywords ==
  /\ threads.reader.pc = "keywords"
  /\ threads' =
       [threads EXCEPT
          !.reader.pc = "done",
          !.reader.result =
             (threads.reader.event.keywords = 0
                \/ BitAnd(threads.reader.event.keywords, state.keywords) # 0)]
  /\ UNCHANGED <<state, hr, isolate_script_map, heap, backend, written,
                 terminated, lastOp, session, run, probe>>

NextRace ==
  \/ \E c \in CallbackInputs : RaceCallback(c)
  \/ \E c \in UpdatingCallbacks : \E event \in RaceEvents : RaceStart(c, event)
  \/ UpdateStateLevel
  \/ UpdateStateKeywords
  \/ UpdateStateEnabled
  \/ IsEnabledReadEnabled
  \/ IsEnabledReadLevel
  \/ IsEnabledReadKeywords

SpecRace == InitRace /\ [][NextRace]_vars

(***************************************************************************)
(* Two threads, each delivering one code-added notification of a script,   *)
(* with no synchronisation: the lookup, the insertion and each write of    *)
(* LogCodeEvent are steps of their own; the controller may call back at    *)
(* any moment.                                                             *)
(***************************************************************************)
Threads == {1, 2}

ThreadEvents == { e \in CodeEventInputs : TouchesCache(e) }

IdleThread ==
  [pc |-> "idle", event |-> CHOOSE e \in ThreadEvents : TRUE, miss |-> FALSE]

InitThreads ==
  /\ RegisteredProvider
  /\ probe = NoProbe
  /\ threads = [t \in Threads |-> IdleThread]

\* A lookup that inserts the script in the same step.
LookupInserting(m, event) ==
  LET script_map == SubMapOf(m, event.isolate)
      miss       == CacheMiss(script_map, event.script.id)
  IN  [map |-> WithSubMap(m, event.isolate,
                          IF miss
                          THEN Emplace(script_map, event.script.id,
                                       ResolvedScriptName(event.script))
                          ELSE script_map),
       miss |-> miss]

\* auto& script_map = (*isolate_script_map)[script_context];
\* script_map.find(script_id) == script_map.end()
Lookup(m, event) ==
  LET script_map == SubMapOf(m, event.isolate)
  IN  [map |-> WithSubMap(m, event.isolate, script_map),
       miss |-> CacheMiss(script_map, event.script.id)]

\* Another thread is inside the code that reads or writes the cache.
InMapCode(t) ==
  \E u \in Threads \ {t} : threads[u].pc \in {"find", "emplace"}

\* CodeEventHandler entered on thread t: the gate.
ThreadDeliver(t, event) ==
  /\ ~terminated
  /\ threads[t].pc = "idle"
  /\ threads' = [threads EXCEPT
                   ![t] = [pc |-> IF HandlerGate(state) THEN "find" ELSE "done",
                           event |-> event, miss |-> FALSE]]
  /\ UNCHANGED <<state, hr, isolate_script_map, heap, backend, written,
                 terminated, lastOp, session, run, probe>>

\* The lookup of the script on thread t.
ThreadFind(t) ==
  /\ ~terminated
  /\ threads[t].pc = "find"
  /\ LET r == Lookup(ScriptMap, threads[t].event)
     IN  /\ heap' = [heap EXCEPT ![isolate_script_map].map = r.map]
         /\ threads' = [threads EXCEPT
                          ![t].pc = IF r.miss THEN "emplace" ELSE "method",
                          ![t].miss = r.miss]
  /\ UNCHANGED <<state, hr, isolate_script_map, backend, written, terminated,
                 lastOp, session, run, probe>>

\* script_map.emplace(script_id, name) on thread t; an emplace of a key that
\* is present changes nothing.  While another thread is in the code of the
\* cache the two accesses race, and the process may be stopped.
ThreadEmplace(t) ==
  /\ ~terminated
  /\ threads[t].pc = "emplace"
  /\ LET event      == threads[t].event
         script_map == SubMapOf(ScriptMap, event.isolate)
         filled     == IF CacheMiss(script_map, event.script.id)
                       THEN Emplace(script_map, event.script.id,
                                    ResolvedScriptName(event.script))
                       ELSE script_map
     IN  /\ terminated' \in (IF InMapCode(t) THEN {FALSE, TRUE} ELSE {FALSE})
         /\ heap' = IF terminated' THEN heap
                    ELSE [heap EXCEPT
                            ![isolate_script_map].map =
                               WithSubMap(ScriptMap, event.isolate, filled)]
  /\ threads' = [threads EXCEPT ![t].pc = "source"]
  /\ UNCHANGED <<state, hr, isolate_script_map, backend, written, lastOp,
                 session, run, probe>>

\* The source-load handed to LogEventData on thread t.
ThreadSourceLoad(t) ==
  /\ ~terminated
  /\ threads[t].pc = "source"
  /\ LET event == threads[t].event
         url   == SubMapOf(ScriptMap, event.isolate)[event.script.id]
     IN  written' = written \o LogSourceLoad(state, event.script.id,
                                             event.isolate, url)
  /\ threads' = [threads EXCEPT ![t].pc = "method"]
  /\ UNCHANGED <<state, hr, isolate_script_map, heap, backend, terminated,
                 lastOp, session, run, probe>>

\* The method-load handed to LogEventData on thread t.
ThreadMethodLoad(t) ==
  /\ ~terminated
  /\ threads[t].pc = "method"
  /\ LET event == threads[t].event
     IN  written' = written \o LogMethodLoad(state, event.isolate, event,
                                             event.script.id,
                                             MethodName(event.name))
  /\ threads' = [threads EXCEPT ![t].pc = "done"]
  /\ UNCHANGED <<state, hr, isolate_script_map, heap, backend, terminated,
                 lastOp, session, run, probe>>

NextThreads ==
  \/ \E c \in CallbackInputs :
        Callback(c.providerState, c.level, c.matchAnyKeyword, c.allKeyword)
  \/ \E t \in Threads : \E event \in ThreadEvents : ThreadDeliver(t, event)
  \/ \E t \in Threads : ThreadFind(t)
  \/ \E t \in Threads : ThreadEmplace(t)
  \/ \E t \in Threads : ThreadSourceLoad(t)
  \/ \E t \in Threads : ThreadMethodLoad(t)

SpecThreads == InitThreads /\ [][NextThreads]_vars

(***************************************************************************)
(* Properties.                                                             *)
(***************************************************************************)
\* Bit i of the mask m is set.
BitSet(m, i) == (m \div (2 ^ i)) % 2 = 1

\* The two masks share a bit (three-bit masks).
ShareBit(a, b) == \E i \in 0 .. 2 : BitSet(a, i) /\ BitSet(b, i)

\* C1: for every provider state and every event, IsEnabled(event) answers
\* true exactly when enabled is set, the event's level is at most the
\* state's, and the event has no keywords or shares a keyword bit with the
\* state; with enabled clear it answers false for every event.
C1_IsEnabledRule ==
  probe.asked =>
    /\ probe.eventEnabled <=>
         /\ state.enabled # 0
         /\ probe.event.level <= state.level
         /\ (probe.event.keywords = 0
               \/ ShareBit(probe.event.keywords, state.keywords))
    /\ (state.enabled = 0 => ~probe.eventEnabled /\ ~probe.enabled)

\* An event above the state's level was asked about in an enabled state
\* whose mask it matches, and refused.
C1_Witness ==
  /\ probe.asked
  /\ state.enabled = 1
  /\ state.level = kLevelInfo
  /\ probe.event.level = kLevelVerbose
  /\ ShareBit(probe.event.keywords, state.keywords)
  /\ ~probe.eventEnabled

\* C2: N consecutive code-added notifications of one (isolate, script id),
\* the first of them finding the script not cached, delivered while both
\* events stay eligible, write exactly one source-load and N method-loads.
C2_OneSourceLoadPerRun ==
  run.n > 0 => run.src = 1 /\ run.meth = run.n

\* A run of three notifications of one script.
C2_Witness == run.n = 3 /\ run.src = 1 /\ run.meth = 3

\* The (isolate, script id) pairs of the notifications explored.
ScriptKeys ==
  { <<e.isolate, e.script.id>> : e \in {x \in CodeEventInputs : ~x.script.empty} }

\* C3: at most one source-load is written for each (isolate, script id),
\* over every sequence of RegisterEtwProvider, UnregisterEtwProvider,
\* callbacks and notifications.  (Violated: a second RegisterEtwProvider
\* installs an empty cache.)
C3_AtMostOneSourceLoad ==
  \A k \in ScriptKeys : SourceLoads(written, k[1], k[2]) <= 1

\* C4: every method-load written with a nonzero script id follows a
\* source-load of the same (isolate, script id).  (Violated: a script
\* cached while its events were masked out never gets its source-load.)
C4_SourceLoadPrecedesMethodLoad ==
  \A i \in DOMAIN written :
    (written[i].event = "MethodLoad" /\ written[i].args[7] # 0) =>
      \E j \in 1 .. (i - 1) :
        IsSourceLoadOf(written[j], written[i].args[1], written[i].args[7])

\* C5: from a Disabled callback until the next Enabled one, enabled, level
\* and keywords are zero and IsEnabled() and IsEnabled(event) are false for
\* every event.
C5_DisabledIsZero ==
  session = "disabled" =>
    /\ state.enabled = 0
    /\ state.level = 0
    /\ state.keywords = 0
    /\ ~IsEnabled(state)
    /\ \A event \in ProbeEvents \cup {kMethodLoadEvent, kSourceLoadEvent} :
         ~IsEnabledEvent(state, event)

\* A Disabled callback arrived after events had been eligible and written.
C5_Witness ==
  /\ session = "disabled"
  /\ lastOp = Op("Callback", 0)
  /\ Len(written) > 0

\* C6: a callback with providerState Enabled, level L and matchAnyKeyword K
\* leaves enabled set, level L and keywords K whatever was stored before
\* and whatever allKeyword holds; handle and trait stay as they were.
C6_EnabledStoresLevelAndMask ==
  [][\A c \in CallbackInputs :
       (c.providerState = 1
          /\ Callback(c.providerState, c.level, c.matchAnyKeyword, c.allKeyword))
       => state' = [state EXCEPT !.enabled = 1, !.level = c.level,
                                 !.keywords = c.matchAnyKeyword]]_vars

\* An Enabled callback replaced a stored level and mask by other ones.
C6_Witness ==
  /\ lastOp = Op("Callback", 1)
  /\ state.enabled = 1
  /\ state.level = kLevelWarning
  /\ state.keywords = 2
  /\ Len(written) > 0

\* C7: a callback whose providerState is neither Disabled nor Enabled
\* leaves the whole provider state unchanged, whatever its arguments.
C7_OtherRequestKeepsState ==
  [][\A c \in CallbackInputs :
       (c.providerState \notin {0, 1}
          /\ Callback(c.providerState, c.level, c.matchAnyKeyword, c.allKeyword))
       => state' = state]_vars

\* Such a callback, carrying level Verbose, arrived at a provider enabled
\* at level Info.
C7_Witness ==
  /\ lastOp = Op("Callback", 2)
  /\ state.enabled = 1
  /\ state.level = kLevelInfo
  /\ state.regHandle = BackendHandle

\* The fields the controller callback maintains.
EnableFields(s) == <<s.enabled, s.level, s.keywords>>

\* The step is a controller callback.
CallbackStep ==
  \E c \in CallbackInputs :
    Callback(c.providerState, c.level, c.matchAnyKeyword, c.allKeyword)

\* C8, as stated: enabled, level and keywords are changed by the controller
\* callback only.  (Violated: Unregister zeroes them.)
C8_OnlyCallbackWrites ==
  [][EnableFields(state') # EnableFields(state) => CallbackStep]_vars

\* C8, amended: enabled, level and keywords are changed only by the
\* controller callback and by Unregister, which zeroes the three when a
\* handle is registered; registration, the event wrappers and
\* CodeEventHandler leave them as they are.
C8_CallbackAndUnregisterWrite ==
  [][EnableFields(state') # EnableFields(state) =>
       \/ CallbackStep
       \/ /\ UnregisterEtwProvider
          /\ state.regHandle # 0
          /\ EnableFields(state') = <<0, 0, 0>>]_vars

\* UnregisterEtwProvider ran on an enabled provider and left it disabled,
\* after an event had been written.
C8_Witness ==
  /\ lastOp = Op("UnregisterEtwProvider", 0)
  /\ session = "enabled"
  /\ state.enabled = 0
  /\ Len(written) > 0

\* C9: however often RegisterEtwProvider is called, also after
\* UnregisterEtwProvider, the backend's registration call is made at most
\* once.
C9_RegisteredAtMostOnce == backend.registerCalls <= 1

\* RegisterEtwProvider was called again after UnregisterEtwProvider.
C9_Witness ==
  /\ lastOp = Op("RegisterEtwProvider", 0)
  /\ backend.unregisterCalls = 1
  /\ backend.registerCalls = 1
  /\ Len(heap) >= 2

\* C10: a call of RegisterEtwProvider after the first leaves the handle,
\* the enable fields, the trait and the script cache with its entries as
\* they were.  (Violated: the call installs a new, empty cache.)
C10_SecondRegisterChangesNothing ==
  [][(hr.initialized /\ RegisterEtwProvider) =>
       (state' = state /\ ScriptMap' = ScriptMap)]_vars

\* C11: Unregister on a registered provider leaves handle, enabled, level
\* and keywords zero, so that IsEnabled is false; on a provider holding no
\* handle (never registered, or unregistered before) it changes nothing and
\* calls the backend not at all.
C11_UnregisterZeroesOrDoesNothing ==
  [][UnregisterEtwProvider =>
       /\ state'.regHandle = 0
       /\ EnableFields(state') = <<0, 0, 0>>
       /\ ~IsEnabled(state')
       /\ (state.regHandle = 0 => state' = state /\ backend' = backend)
       /\ (state.regHandle # 0 =>
             backend'.unregisterCalls = backend.unregisterCalls + 1)]_vars

\* Unregister ran a second time, on the provider it had unregistered while
\* enabled at level Verbose: the delete it repeated stopped the process.
C11_Witness ==
  /\ lastOp = Op("UnregisterEtwProvider", 0)
  /\ terminated
  /\ session = "enabled"
  /\ state.regHandle = 0
  /\ state.enabled = 0
  /\ backend.unregisterCalls = 1

\* C12: the backend's unregister call is made at most once, only with the
\* handle a successful registration stored, and the stored handle is zero
\* from then on.
C12_ReleasedOnce ==
  /\ backend.unregisterCalls <= 1
  /\ backend.released \subseteq {BackendHandle}
  /\ (backend.unregisterCalls = 1 =>
        /\ state.regHandle = 0
        /\ hr.value = ErrorSuccess
        /\ backend.registerCalls = 1
        /\ backend.released = {BackendHandle})

\* The handle was released, and RegisterEtwProvider then
\* UnregisterEtwProvider were called again.
C12_Witness ==
  /\ backend.unregisterCalls = 1
  /\ backend.released = {BackendHandle}
  /\ Len(heap) >= 2
  /\ lastOp = Op("UnregisterEtwProvider", 0)
  /\ ~terminated

\* The provider as a rejected registration leaves it: no handle, not
\* enabled, nothing written, nothing registered with the backend.
Rejected ==
  /\ state.regHandle = 0
  /\ ~IsEnabled(state)
  /\ written = << >>
  /\ ~backend.registered

\* C13: once the backend has rejected the registration, Register answers
\* that non-zero status on every call, the handle stays zero, IsEnabled is
\* false and nothing is written, in every later state.
C13_RejectedForGood ==
  [][/\ (hr'.initialized /\ hr'.value # ErrorSuccess) => Rejected'
     /\ (hr.initialized /\ hr.value # ErrorSuccess) => hr' = hr]_vars

\* After a rejected registration RegisterEtwProvider was called again and
\* an event wrapper then ran.
C13_Witness ==
  /\ hr.initialized
  /\ hr.value = ErrorAccessDenied
  /\ Len(heap) >= 2
  /\ lastOp.name = "PublicEvent"
  /\ written = << >>

\* The catalog: the EventInfo of every event the provider can write.
Catalog ==
  {w.info : w \in PublicWrappers} \cup {kMethodLoadEvent, kSourceLoadEvent}

CatalogEvent(id) == CHOOSE e \in Catalog : e.id = id

\* The write calls a step adds to the log.
NewWrites == SubSeq(written', Len(written) + 1, Len(written'))

\* C14: a step writes an event only if, in the state the emission path
\* reads, the provider is enabled, the event's level is at most the
\* session's and the event has no keyword or one in the session's mask.
C14_WritesAreEligible ==
  [][\A i \in DOMAIN NewWrites :
       LET event == CatalogEvent(NewWrites[i].id)
       IN  /\ state.enabled # 0
           /\ event.level <= state.level
           /\ (event.keywords = 0 \/ ShareBit(event.keywords, state.keywords))]_vars

\* A wrapper of a Verbose event ran while the session was enabled at level
\* Info, and nothing was written.
C14_Witness ==
  /\ lastOp = Op("PublicEvent", kLevelVerbose)
  /\ state.enabled = 1
  /\ state.level = kLevelInfo
  /\ written = << >>

\* C15: a notification whose code type is not JIT_CODE or whose event type
\* is not CODE_ADDED writes nothing and leaves the script cache and the
\* provider state as they were.
C15_OtherNotificationsDiscarded ==
  [][\A e \in CodeEventInputs :
       ((e.code_type # "JIT_CODE" \/ e.type # "CODE_ADDED")
          /\ CodeEventHandler(e, MaxWrites))
       => /\ written' = written
          /\ heap' = heap
          /\ isolate_script_map' = isolate_script_map
          /\ state' = state]_vars

\* A code-moved notification of JIT code passed the gate of a provider
\* whose cache holds a script.
C15_Witness ==
  /\ lastOp = Op("CodeEventHandler", "type")
  /\ state.enabled = 1
  /\ state.level >= kLevelInfo
  /\ ScriptMap # EmptyMap

\* C16: while the provider is not enabled or its level is below Info, a
\* notification writes nothing and leaves the cache without a new sub-map
\* or entry.
C16_NoSessionNoWork ==
  [][\A e \in CodeEventInputs :
       ((state.enabled = 0 \/ state.level < kLevelInfo)
          /\ CodeEventHandler(e, MaxWrites))
       => /\ written' = written
          /\ heap' = heap]_vars

\* A notification arrived at a provider enabled at level Warning, whose
\* cache was allocated and is still empty.
C16_Witness ==
  /\ lastOp = Op("CodeEventHandler", "gate")
  /\ state.enabled = 1
  /\ state.level = kLevelWarning
  /\ MapUsable
  /\ ScriptMap = EmptyMap

IsMethodLoad(w) == w.event = "MethodLoad"
IsSourceLoad(w) == w.event = "SourceLoad"

\* The notification is one CodeEventHandler accepts in the state: enabled
\* at level Info or above, JIT code, code added.
Accepted(e) ==
  /\ state.enabled # 0
  /\ state.level >= kLevelInfo
  /\ e.code_type = "JIT_CODE"
  /\ e.type = "CODE_ADDED"

\* The method-load fields of a notification; its name, the UTF-8 bytes
\* 66 C3 A9, is "f" followed by U+00E9.
ExpectedMethodLoad(e) ==
  <<e.isolate, e.code_start, e.code_len, 0, 0, 0,
    IF e.script.empty THEN 0 ELSE e.script.id, 0, 0, <<102, 233>>>>

\* The session's mask holds the keyword of the method-load event.
MethodLoadKeywordOn == ShareBit(kJScriptRuntimeKeyword, state.keywords)

\* What an accepted notification with a method-load write must look like:
\* one method-load with the expected fields, and with no script no
\* source-load and an untouched cache.
OneMethodLoad(e) ==
  LET loads == SelectSeq(NewWrites, IsMethodLoad)
  IN  /\ Len(loads) = 1
      /\ loads[1].args = ExpectedMethodLoad(e)
      /\ (e.script.empty =>
            SelectSeq(NewWrites, IsSourceLoad) = << >> /\ heap' = heap)

\* C17, as stated: every accepted code-added JIT notification writes
\* exactly one method-load with the fields above.  (Violated: accepted
\* while the session's mask lacks the event's keyword, it writes none.)
C17_AcceptedWritesOneMethodLoad ==
  [][\A e \in CodeEventInputs :
       (Accepted(e) /\ CodeEventHandler(e, MaxWrites)) => OneMethodLoad(e)]_vars

\* C17, amended: an accepted notification writes exactly one method-load
\* with the fields above when the session's mask holds the keyword of the
\* event, and no event at all when it does not; with no script it writes
\* no source-load and leaves the cache alone.
C17_AcceptedAndEligibleWritesOneMethodLoad ==
  [][\A e \in CodeEventInputs :
       (Accepted(e) /\ CodeEventHandler(e, MaxWrites)) =>
         /\ MethodLoadKeywordOn => OneMethodLoad(e)
         /\ ~MethodLoadKeywordOn => NewWrites = << >>
         /\ e.script.empty => heap' = heap]_vars

\* A notification without a script was accepted and its method-load, with
\* script id 0, is the only write so far.
C17_Witness ==
  /\ lastOp = Op("CodeEventHandler", "added")
  /\ Len(written) = 1
  /\ written[1].event = "MethodLoad"
  /\ written[1].args[7] = 0
  /\ ScriptMap = EmptyMap

\* The name the script of (isolate, script id) is to go by: its name when
\* that is a string, the sentinel when it is not.
ExpectedName(script_context, script_id) ==
  LET e == CHOOSE x \in CodeEventInputs :
             ~x.script.empty /\ x.isolate = script_context
               /\ x.script.id = script_id
  IN  IF e.script.name.isString THEN e.script.name.str ELSE "[unknown]"

\* C18: the name cached for a script and the name in its source-load are
\* the script's name when that is a string and "[unknown]", never the empty
\* string, when it is not.
C18_NameOrSentinel ==
  /\ \A k \in ScriptKeys :
       Cached(ScriptMap, k[1], k[2]) =>
         /\ ScriptMap[k[1]][k[2]] = ExpectedName(k[1], k[2])
         /\ ScriptMap[k[1]][k[2]] # ""
  /\ \A i \in DOMAIN written :
       written[i].event = "SourceLoad" =>
         /\ written[i].args[4] = ExpectedName(written[i].args[2], written[i].args[1])
         /\ written[i].args[4] # ""

\* A script whose name is not a string and one whose name is "a.js" were
\* both cached and announced.
C18_Witness ==
  /\ Cached(ScriptMap, "Y", 7)
  /\ ScriptMap["Y"][7] = "[unknown]"
  /\ Cached(ScriptMap, "X", 7)
  /\ ScriptMap["X"][7] = "a.js"
  /\ \E i \in DOMAIN written :
       written[i].event = "SourceLoad" /\ written[i].args[4] = "[unknown]"
  /\ \E i \in DOMAIN written :
       written[i].event = "SourceLoad" /\ written[i].args[4] = "a.js"

\* C19: an (isolate, script id) once in the script cache stays there, with
\* the name it was given, over every sequence of operations.  (Violated:
\* RegisterEtwProvider replaces the cache by an empty one, and
\* UnregisterEtwProvider deletes it.)
C19_CacheAppendOnly ==
  [][\A k \in ScriptKeys :
       Cached(ScriptMap, k[1], k[2]) =>
         /\ Cached(ScriptMap', k[1], k[2])
         /\ ScriptMap'[k[1]][k[2]] = ScriptMap[k[1]][k[2]]]_vars

\* The arguments of a write match its metadata: as many as fields, each of
\* a type its field's declared type takes.
ArgsMatch(w) ==
  /\ Len(w.args) = Len(w.fields)
  /\ Len(w.types) = Len(w.fields)
  /\ \A j \in DOMAIN w.fields : w.types[j] \in CTypesOf(w.fields[j].type)

\* C20: the arguments every write passes to LogEventData match the fields
\* of its metadata in count, order and type.  (Violated: LogDisableOpt
\* declares no field and passes two Field descriptors.)
C20_ArgsMatchMetadata == \A i \in DOMAIN written : ArgsMatch(written[i])

\* C24: once the provider has been unregistered, a further Register makes
\* no backend call and answers the latched status, the handle stays zero,
\* the controller holds no registration to call back on, and IsEnabled is
\* false, in every later state.
C24_NoReRegistration ==
  backend.unregisterCalls >= 1 =>
    /\ backend.registerCalls = 1
    /\ hr = [initialized |-> TRUE, value |-> ErrorSuccess]
    /\ state.regHandle = 0
    /\ ~backend.registered
    /\ ~IsEnabled(state)
    /\ \A event \in Catalog : ~IsEnabledEvent(state, event)

\* Register, Unregister, Register: the provider had been enabled and had
\* written events before it was unregistered.
C24_Witness ==
  /\ lastOp = Op("RegisterEtwProvider", 0)
  /\ backend.unregisterCalls = 1
  /\ session = "enabled"
  /\ Len(written) > 0
  /\ MapUsable

\* C25: a notification of a script not yet cached for its isolate, taken
\* while both events are eligible, writes the source-load of that (isolate,
\* script id), whether or not the same script id is cached for another
\* isolate.
C25_ScopedPerIsolate ==
  [][\A e \in CodeEventInputs :
       (/\ TouchesCache(e)
        /\ BothEligible(state)
        /\ ~Cached(ScriptMap, e.isolate, e.script.id)
        /\ CodeEventHandler(e, MaxWrites))
       => \E i \in DOMAIN NewWrites :
            IsSourceLoadOf(NewWrites[i], e.isolate, e.script.id)]_vars

\* Script 7 was announced for isolate X and then for isolate Y: one
\* source-load each.
C25_Witness ==
  /\ Len(written) = 4
  /\ IsSourceLoadOf(written[1], "X", 7)
  /\ IsSourceLoadOf(written[3], "Y", 7)
  /\ SourceLoads(written, "X", 7) = 1
  /\ SourceLoads(written, "Y", 7) = 1

\* C28: every (isolate, script id) in the script cache has had its
\* source-load written.  (Violated: a script is cached while the mask of
\* the session excludes the keyword of the source-load.)
C28_CachedMeansAnnounced ==
  \A k \in ScriptKeys :
    Cached(ScriptMap, k[1], k[2]) => SourceLoads(written, k[1], k[2]) >= 1

\* C29: UnregisterEtwProvider never deletes a cache that is already
\* deleted, and no notification reads a deleted cache.  (Violated:
\* UnregisterEtwProvider called twice deletes the same object twice.)
C29_NoUseAfterFree ==
  [][/\ UnregisterEtwProvider =>
          (isolate_script_map = 0 \/ heap[isolate_script_map].status = "live")
     /\ (lastOp'.name = "CodeEventHandler" /\ lastOp'.arg = "added"
           /\ isolate_script_map # 0)
          => heap[isolate_script_map].status = "live"]_vars

\* C30: whenever enabled is set the handle is non-zero and the script cache
\* is allocated; a notification that gets past the enable check finds a
\* usable cache.
C30_EnabledImpliesRegistered ==
  /\ state.enabled # 0 =>
       /\ state.regHandle # 0
       /\ isolate_script_map # 0
       /\ heap[isolate_script_map].status = "live"
  /\ (lastOp.name = "CodeEventHandler" /\ lastOp.arg # "gate") =>
       /\ isolate_script_map # 0
       /\ heap[isolate_script_map].status = "live"

\* A notification delivered after UnregisterEtwProvider, to a provider that
\* had been enabled, returned at the enable check.
C30_Witness ==
  /\ lastOp = Op("CodeEventHandler", "gate")
  /\ session = "enabled"
  /\ isolate_script_map # 0
  /\ heap[isolate_script_map].status = "freed"

\* What the same operation returns from a provider built with V8_ETW that
\* was never enabled.
NeverEnabledResult(name, args, value) ==
  CASE name = "Register" -> "0"
    [] name = "Level" -> IF Level(InitialState) = 0 THEN "0" ELSE "other"
    [] name = "Keywords" -> IF Keywords(InitialState) = 0 THEN "0" ELSE "other"
    [] name = "IsEnabled" /\ args = << >> ->
         IF IsEnabled(InitialState) THEN "true" ELSE "false"
    [] name = "IsEnabled" /\ args # << >> ->
         IF IsEnabledEvent(InitialState, value) THEN "true" ELSE "false"
    [] OTHER -> "void"

\* C22: every call that the build with V8_ETW accepts is accepted by the
\* build without it, returns what a never-enabled provider returns, writes
\* no event and changes no field.  (Violated: ParsingStart, ParsingStop,
\* GenerateUnoptimizedCodeStart and GenerateUnoptimizedCodeStop are declared
\* with other parameters in the build without V8_ETW.)
C22_NoEtwSameOperations ==
  probe.asked =>
    /\ WellFormed(EtwOperations, probe.name, probe.args)
    /\ probe.wellFormed
    /\ probe.result = NeverEnabledResult(probe.name, probe.args, probe.value)
    /\ written = << >>
    /\ state = InitialState

\* The UTF-8 bytes of a sequence of UTF-16 code units.
RECURSIVE Utf16ToUtf8(_)
Utf16ToUtf8(units) ==
  IF units = << >> THEN << >>
  ELSE
    LET n  == Len(units)
        u  == units[1]
        cp == 65536 + (u - 55296) * 1024 + (units[2] - 56320)
    IN  IF u < 128
          THEN <<u>> \o Utf16ToUtf8(SubSeq(units, 2, n))
        ELSE IF u < 2048
          THEN <<192 + (u \div 64), 128 + (u % 64)>>
               \o Utf16ToUtf8(SubSeq(units, 2, n))
        ELSE IF 55296 <= u /\ u <= 56319 /\ n >= 2
                /\ 56320 <= units[2] /\ units[2] <= 57343
          THEN <<240 + (cp \div 262144), 128 + ((cp \div 4096) % 64),
                 128 + ((cp \div 64) % 64), 128 + (cp % 64)>>
               \o Utf16ToUtf8(SubSeq(units, 3, n))
        ELSE <<224 + (u \div 4096), 128 + ((u \div 64) % 64), 128 + (u % 64)>>
             \o Utf16ToUtf8(SubSeq(units, 2, n))

\* C23: the name field of the method-load, encoded back to UTF-8, is the
\* sequence of bytes of the notification's name.  (Violated: a name holding
\* the character U+0000 ends at that character.)
C23_NameRoundTrip ==
  probe.asked => Utf16ToUtf8(probe.name) = probe.bytes

\* C21: a notification makes one write call for each event it hands to the
\* backend, whatever the backend answers; the provider state is as before the
\* notification and the cache is as LogCodeEvent leaves it, so a script
\* whose source-load was dropped is cached and a later notification of it
\* writes no source-load.
C21_FailedWriteDropped ==
  [][\A e \in CodeEventInputs :
       (/\ HandlerGate(state)
        /\ TouchesCache(e) => MapUsable
        /\ CodeEventHandlerWriting(e, MaxFailWrites, WriteResults))
       => LET r == LogCodeEvent(state, ScriptMap, e)
          IN  /\ NewWrites = r.writes
              /\ state' = state
              /\ TouchesCache(e) =>
                   /\ heap'[isolate_script_map].map = r.map
                   /\ Cached(heap'[isolate_script_map].map, e.isolate, e.script.id)
                   /\ Cached(ScriptMap, e.isolate, e.script.id) =>
                        \A i \in DOMAIN NewWrites :
                          ~IsSourceLoadOf(NewWrites[i], e.isolate, e.script.id)
              /\ backend'.dropped \ backend.dropped
                   \subseteq (Len(written) + 1) .. Len(written')]_vars

\* The source-load of (Y, 7) was dropped by the backend; a second
\* notification of the script wrote its method-load and no source-load.
C21_Witness ==
  /\ Len(written) = 3
  /\ IsSourceLoadOf(written[1], "Y", 7)
  /\ 1 \in backend.dropped
  /\ IsMethodLoadOf(written[3], "Y", 7)
  /\ SourceLoads(written, "Y", 7) = 1
  /\ Cached(ScriptMap, "Y", 7)

\* C26: the answer of an IsEnabled(event) that ran alongside one callback is
\* the answer the rule gives for the state before the callback or for the
\* state after it.  (Violated: the reader takes the level from before and
\* the keywords from after the callback.)
C26_SnapshotRead ==
  (threads.reader.pc = "done" /\ threads.callback.pc = "done") =>
    LET after == UpdateState(threads.before, threads.callback.isEnabled,
                             threads.callback.level,
                             threads.callback.keywords)
    IN  \/ threads.reader.result
             = IsEnabledEvent(threads.before, threads.reader.event)
        \/ threads.reader.result = IsEnabledEvent(after, threads.reader.event)

\* Thread t saw a miss for the script of thread u's notification and has
\* made its insertion.
InsertedSameScript(t, u) ==
  /\ threads[t].miss
  /\ threads[t].pc \in {"source", "method", "done"}
  /\ threads[t].event.isolate = threads[u].event.isolate
  /\ threads[t].event.script.id = threads[u].event.script.id

\* C27: the lookup and the insertion are two steps: a thread that has seen
\* a miss and has not inserted yet finds the script in the cache only if
\* the other thread saw a miss for it too and inserted it; and two
\* source-loads of one script are written only when both threads saw a miss.
C27_LookupAndInsertNotAtomic ==
  /\ \A u \in Threads :
       (threads[u].pc = "emplace"
          /\ Cached(ScriptMap, threads[u].event.isolate,
                    threads[u].event.script.id))
       => \E t \in Threads \ {u} : InsertedSameScript(t, u)
  /\ \A k \in ScriptKeys :
       /\ SourceLoads(written, k[1], k[2]) <= 2
       /\ SourceLoads(written, k[1], k[2]) = 2 =>
            \A t \in Threads :
              /\ threads[t].miss
              /\ threads[t].event.isolate = k[1]
              /\ threads[t].event.script.id = k[2]

\* Both threads saw a miss for (X, 7) and two source-loads of it were
\* written.
C27_Witness ==
  /\ SourceLoads(written, "X", 7) = 2
  /\ \A t \in Threads : threads[t].miss /\ threads[t].pc = "done"
  /\ ~terminated

====
